---- MODULE Spec2Model ----
(***************************************************************************)
(* A model of the dependency-resolution core of cower:                     *)
(*   - alpm_list_mmerge_dedupe / alpm_list_remove_item   (src/pacman.c)    *)
(*   - parse_bash_array / pkgbuild_get_deps / populate_pkg_deps            *)
(*                                                       (src/depends.c)   *)
(*   - get_pkg_dependencies                              (src/depends.c)   *)
(* Three specifications share the module: MergeSpec, ExtractSpec and       *)
(* ResolveSpec.  Each runs one component and leaves the variables of the   *)
(* other two at their idle values.                                         *)
(***************************************************************************)
EXTENDS Integers, Sequences, FiniteSets, TLC

VARIABLES
  \* ---- alpm_list_mmerge_dedupe -------------------------------------------
  nxt,       \* node -> node->next
  prv,       \* node -> node->prev
  dat,       \* node -> node->data (an integer key; fn is integer comparison)
  freed,     \* nodes passed to free() by alpm_list_remove_item
  left,      \* parameter / cursor `left`
  right,     \* parameter / cursor `right`
  newlist,   \* local `newlist`
  lp,        \* local `lp`
  mpc,       \* position in alpm_list_mmerge_dedupe
  result,    \* the returned head (meaningful when mpc = "done")
  leftIn,    \* the keys of the list passed as `left`  (history)
  rightIn,   \* the keys of the list passed as `right` (history)
  \* ---- pkgbuild_get_deps / populate_pkg_deps -----------------------------
  buf,       \* the recipe buffer, a NUL-terminated character array
  bptr,      \* local `bptr` (an index into buf, NULL when strchr failed)
  deplist,   \* local `deplist` of pkgbuild_get_deps
  pkg,       \* the aur_pkg_t filled by populate_pkg_deps
  epc,       \* position in the extractor
  fun,       \* which extractor runs: "get_deps" or "populate"
  lines0,    \* the lines the recipe text was made of (history)
  \* ---- get_pkg_dependencies ----------------------------------------------
  rpc,       \* position in get_pkg_dependencies
  ret,       \* local `ret`
  rdeps,     \* local `deplist`
  ri,        \* loop cursor `i`, as an index into rdeps
  log,       \* the calls made to the collaborators, in order (history)
  installed, \* names alpm_db_get_pkg(db_local, .) finds
  repos,     \* names alpm_sync_search finds in a sync database
  aurdb,     \* names for which aur_rpc_query returns a result
  readable,  \* whether get_file_as_buffer returns a buffer
  rlines     \* the lines of the recipe file (history)

mvars == <<nxt, prv, dat, freed, left, right, newlist, lp, mpc, result, leftIn, rightIn>>
evars == <<buf, bptr, deplist, pkg, epc, fun, lines0>>
rvars == <<rpc, ret, rdeps, ri, log, installed, repos, aurdb, readable, rlines>>
vars == <<mvars, evars, rvars>>

(***************************************************************************)
(* Bounds                                                                  *)
(***************************************************************************)
MaxLen == 3            \* longest input list of the merge
MaxLines == 3          \* most lines of a recipe text given to the extractors
MaxRecipeLines == 2    \* most lines of a recipe file given to get_pkg_dependencies

NULL == 0

Values == {1, 2, 3}    \* the keys a list node may carry

RECURSIVE SeqsUpTo(_, _)
SeqsUpTo(S, n) ==
  IF n = 0 THEN {<<>>}
  ELSE LET shorter == SeqsUpTo(S, n - 1)
       IN  shorter \cup {Append(s, x) : s \in {t \in shorter : Len(t) = n - 1}, x \in S}

Range(s) == {s[i] : i \in DOMAIN s}

(***************************************************************************)
(*                    PART 1: alpm_list_mmerge_dedupe                      *)
(***************************************************************************)
Nodes == 1..(2 * MaxLen)
RightBase == MaxLen        \* the right list's nodes follow the left list's

\* The alpm_list_t representation of a sequence s laid out on the nodes
\* base+1 .. base+Len(s): next of the last node is NULL, prev of the head is
\* the last node (the tail pointer), prev of any other node its predecessor.
ListHead(s, base) == IF Len(s) = 0 THEN NULL ELSE base + 1
ListNext(s, base, n) == IF n - base < Len(s) THEN n + 1 ELSE NULL
ListPrev(s, base, n) == IF n = base + 1 THEN base + Len(s) ELSE n - 1
OnList(s, base, n) == n - base \in 1..Len(s)

InitNext(l, r) ==
  [n \in Nodes |-> IF OnList(l, 0, n) THEN ListNext(l, 0, n)
                   ELSE IF OnList(r, RightBase, n) THEN ListNext(r, RightBase, n)
                   ELSE NULL]
InitPrev(l, r) ==
  [n \in Nodes |-> IF OnList(l, 0, n) THEN ListPrev(l, 0, n)
                   ELSE IF OnList(r, RightBase, n) THEN ListPrev(r, RightBase, n)
                   ELSE NULL]
InitData(l, r) ==
  [n \in Nodes |-> IF OnList(l, 0, n) THEN l[n]
                   ELSE IF OnList(r, RightBase, n) THEN r[n - RightBase]
                   ELSE 0]

\* fn(a, b): the comparison callback, here the order of the integers.
Cmp(a, b) == IF a < b THEN -1 ELSE IF a > b THEN 1 ELSE 0

\* alpm_list_remove_item(listhead, target, fn) on the heap h = [nxt, prv, freed].
\* Returns the heap after the call and the returned node (target->next).
RemoveItem(h, listhead, target) ==
  LET tn == h.nxt[target]
      tp == h.prv[target]
      unlinked ==
        IF target = listhead THEN
          \* listhead = target->next; if (listhead) listhead->prev = target->prev;
          \* target->prev = NULL;
          LET p1 == IF tn # NULL THEN [h.prv EXCEPT ![tn] = tp] ELSE h.prv
          IN  [nxt |-> h.nxt, prv |-> [p1 EXCEPT ![target] = NULL]]
        ELSE IF target = h.prv[listhead] THEN
          IF tp # NULL THEN
            [nxt |-> [h.nxt EXCEPT ![tp] = tn],
             prv |-> [h.prv EXCEPT ![listhead] = tp, ![target] = NULL]]
          ELSE [nxt |-> h.nxt, prv |-> h.prv]
        ELSE
          LET p1 == IF tn # NULL THEN [h.prv EXCEPT ![tn] = tp] ELSE h.prv
              n1 == IF tp # NULL THEN [h.nxt EXCEPT ![tp] = tn] ELSE h.nxt
          IN  [nxt |-> n1, prv |-> p1]
  IN  [nxt   |-> unlinked.nxt,
       prv   |-> unlinked.prv,
       freed |-> h.freed \cup {target},      \* fn(target->data); free(target);
       next  |-> unlinked.nxt[target]]       \* next = target->next;

Heap == [nxt |-> nxt, prv |-> prv, freed |-> freed]

\* while (lp && lp->next) lp = lp->next;  -- the node the walk stops at.
RECURSIVE TailWalk(_, _, _)
TailWalk(f, n, fuel) ==
  IF n = NULL \/ fuel = 0 THEN n
  ELSE IF f[n] = NULL THEN n
  ELSE TailWalk(f, f[n], fuel - 1)

MergeInit ==
  \E l \in SeqsUpTo(Values, MaxLen), r \in SeqsUpTo(Values, MaxLen) :
    /\ leftIn = l
    /\ rightIn = r
    /\ nxt = InitNext(l, r)
    /\ prv = InitPrev(l, r)
    /\ dat = InitData(l, r)
    /\ freed = {}
    /\ left = ListHead(l, 0)
    /\ right = ListHead(r, RightBase)
    /\ newlist = NULL
    /\ lp = NULL
    /\ mpc = "entry"
    /\ result = NULL

\* lines 63-66: if (left == NULL) return right; if (right == NULL) return left;
MergeEntry ==
  /\ mpc = "entry"
  /\ IF left = NULL THEN mpc' = "done" /\ result' = right
     ELSE IF right = NULL THEN mpc' = "done" /\ result' = left
     ELSE mpc' = "head" /\ result' = result
  /\ UNCHANGED <<nxt, prv, dat, freed, left, right, newlist, lp, leftIn, rightIn>>
  /\ UNCHANGED <<evars, rvars>>

\* lines 68-79, one iteration of the do-while whose comparison is not 0:
\* the head of the result is chosen; then lines 81-83.
MergeHeadPick ==
  /\ mpc = "head"
  /\ left # NULL /\ right # NULL
  /\ Cmp(dat[left], dat[right]) # 0
  /\ LET picked == IF Cmp(dat[left], dat[right]) > 0 THEN right ELSE left
     IN  /\ newlist' = picked
         /\ lp' = picked
         /\ left' = IF picked = left THEN nxt[left] ELSE left
         /\ right' = IF picked = right THEN nxt[right] ELSE right
         /\ nxt' = [nxt EXCEPT ![picked] = NULL]
         /\ prv' = [prv EXCEPT ![picked] = NULL]
  /\ mpc' = "main"
  /\ UNCHANGED <<dat, freed, result, leftIn, rightIn>>
  /\ UNCHANGED <<evars, rvars>>

\* lines 68-79, one iteration whose comparison is 0: the left head is removed
\* and the loop repeats (compare == 0).
MergeHeadDrop ==
  /\ mpc = "head"
  /\ left # NULL /\ right # NULL
  /\ Cmp(dat[left], dat[right]) = 0
  /\ LET h == RemoveItem(Heap, left, left)
     IN  /\ nxt' = h.nxt
         /\ prv' = h.prv
         /\ freed' = h.freed
         /\ left' = h.next
  /\ UNCHANGED <<dat, right, newlist, lp, mpc, result, leftIn, rightIn>>
  /\ UNCHANGED <<evars, rvars>>

\* line 69 with left == NULL: the loop condition never tests the cursors, so
\* after the last left node was removed fn(left->data, ...) reads through a
\* null pointer.  The read is of the page at address 0: the process traps.
MergeHeadNullDeref ==
  /\ mpc = "head"
  /\ left = NULL \/ right = NULL
  /\ mpc' = "crashed"
  /\ UNCHANGED <<nxt, prv, dat, freed, left, right, newlist, lp, result, leftIn, rightIn>>
  /\ UNCHANGED <<evars, rvars>>

\* lines 85-102, one iteration that links a node behind lp.
MergeLink ==
  /\ mpc = "main"
  /\ left # NULL /\ right # NULL
  /\ Cmp(dat[left], dat[right]) # 0
  /\ LET taken == IF Cmp(dat[left], dat[right]) < 0 THEN left ELSE right
         after == nxt[taken]
     IN  /\ nxt' = [nxt EXCEPT ![lp] = taken, ![taken] = NULL]
         /\ prv' = [prv EXCEPT ![taken] = lp]
         /\ left' = IF taken = left THEN after ELSE left
         /\ right' = IF taken = right THEN after ELSE right
         /\ lp' = taken
  /\ UNCHANGED <<dat, freed, newlist, mpc, result, leftIn, rightIn>>
  /\ UNCHANGED <<evars, rvars>>

\* lines 96-98: equal heads, the left one is removed; continue.
MergeDrop ==
  /\ mpc = "main"
  /\ left # NULL /\ right # NULL
  /\ Cmp(dat[left], dat[right]) = 0
  /\ LET h == RemoveItem(Heap, left, left)
     IN  /\ nxt' = h.nxt
         /\ prv' = h.prv
         /\ freed' = h.freed
         /\ left' = h.next
  /\ UNCHANGED <<dat, right, newlist, lp, mpc, result, leftIn, rightIn>>
  /\ UNCHANGED <<evars, rvars>>

\* Mutant of MergeTail: lines 112-114 left out, newlist->prev = lp as it stands.
MergeTailNoWalk(f, from) == from

\* The node newlist->prev is set to at line 115.
MergeTail(f, from) == TailWalk(f, from, 2 * MaxLen)

\* lines 103-117: the remainder is attached, the tail pointer set, return.
MergeFinish ==
  /\ mpc = "main"
  /\ left = NULL \/ right = NULL
  /\ LET rest == IF left # NULL THEN left ELSE right
         n1 == IF rest # NULL THEN [nxt EXCEPT ![lp] = rest] ELSE nxt
         p1 == IF rest # NULL THEN [prv EXCEPT ![rest] = lp] ELSE prv
         tail == MergeTail(n1, lp)
     IN  /\ nxt' = n1
         /\ prv' = [p1 EXCEPT ![newlist] = tail]
         /\ lp' = tail
  /\ result' = newlist
  /\ mpc' = "done"
  /\ UNCHANGED <<dat, freed, left, right, newlist, leftIn, rightIn>>
  /\ UNCHANGED <<evars, rvars>>

MergeNext ==
  \/ MergeEntry
  \/ MergeHeadPick
  \/ MergeHeadDrop
  \/ MergeHeadNullDeref
  \/ MergeLink
  \/ MergeDrop
  \/ MergeFinish

MergeIdle ==
  /\ nxt = [n \in Nodes |-> NULL]
  /\ prv = [n \in Nodes |-> NULL]
  /\ dat = [n \in Nodes |-> 0]
  /\ freed = {}
  /\ left = NULL /\ right = NULL /\ newlist = NULL /\ lp = NULL
  /\ mpc = "idle"
  /\ result = NULL
  /\ leftIn = <<>> /\ rightIn = <<>>

(***************************************************************************)
(*        PART 2: parse_bash_array, pkgbuild_get_deps, populate_pkg_deps   *)
(*                                                                         *)
(* The recipe buffer is a sequence of characters (one-character strings)   *)
(* that ends with NUL; a char* is an index into it, NULL is 0.             *)
(***************************************************************************)
NUL == "NUL"
IsSpace(c) == c \in {" ", "\t", "\n", "\r", "\f"}
Quotes == {"'", "\""}

\* The keywords of depends.h.
PKGBUILD_DEPENDS == <<"d", "e", "p", "e", "n", "d", "s", "=">>
PKGBUILD_MAKEDEPENDS == <<"m", "a", "k", "e", "d", "e", "p", "e", "n", "d", "s", "=">>
PKGBUILD_OPTDEPENDS == <<"o", "p", "t", "d", "e", "p", "e", "n", "d", "s", "=">>

\* The lines recipe texts are made of.
\* depends=('a' 'b>=1.0' 'a')
DepLine == <<"d", "e", "p", "e", "n", "d", "s", "=", "(", "'", "a", "'", " ", "'", "b", ">", "=", "1", ".", "0", "'", " ", "'", "a", "'", ")">>
\* makedepends=("c<2" a)
MakeLine == <<"m", "a", "k", "e", "d", "e", "p", "e", "n", "d", "s", "=", "(", "\"", "c", "<", "2", "\"", " ", "a", ")">>
\* optdepends=('a: description text')
OptLine == <<"o", "p", "t", "d", "e", "p", "e", "n", "d", "s", "=", "(", "'", "a", ":", " ", "d", "e", "s", "c", "r", "i", "p", "t", "i", "o", "n", " ", "t", "e", "x", "t", "'", ")">>
\* depends=(a b   -- the array is never closed
OpenLine == <<"d", "e", "p", "e", "n", "d", "s", "=", "(", "a", " ", "b">>
\* a declaration with blanks around it
IndentLine == <<" ", " ", "d", "e", "p", "e", "n", "d", "s", "=", "(", "c", ")", " ">>
\* pkgver=1
PlainLine == <<"p", "k", "g", "v", "e", "r", "=", "1">>
\* build() {
BuildLine == <<"b", "u", "i", "l", "d", "(", ")", " ", "{">>
\* depends=(x y z)
DepXYZ == <<"d", "e", "p", "e", "n", "d", "s", "=", "(", "x", " ", "y", " ", "z", ")">>
\* makedepends=('z' 'x>=2' w)
MakeZX == <<"m", "a", "k", "e", "d", "e", "p", "e", "n", "d", "s", "=", "(", "'", "z", "'", " ", "'", "x", ">", "=", "2", "'", " ", "w", ")">>
\* depends=(z z)
DepZZ == <<"d", "e", "p", "e", "n", "d", "s", "=", "(", "z", " ", "z", ")">>
EmptyLine == <<>>

\* The names and entries the lines above declare.
NameA == <<"a">>
NameB == <<"b">>
NameC == <<"c">>
NameX == <<"x">>
NameY == <<"y">>
NameZ == <<"z">>
NameW == <<"w">>
DescEntry == <<"a", ":", " ", "d", "e", "s", "c", "r", "i", "p", "t", "i", "o", "n", " ", "t", "e", "x", "t">>

\* The index of the NUL that ends the C string starting at p.
RECURSIVE StrEnd(_, _)
StrEnd(b, p) == IF b[p] = NUL THEN p ELSE StrEnd(b, p + 1)

\* strlen(p)
StrLen(b, p) == StrEnd(b, p) - p

\* strchr(p, c): the first c of the C string at p, NULL when there is none.
RECURSIVE StrChr(_, _, _)
StrChr(b, p, c) ==
  IF b[p] = c THEN p
  ELSE IF b[p] = NUL THEN NULL
  ELSE StrChr(b, p + 1, c)

\* The first index at or after p that holds no white space.
RECURSIVE SkipSpace(_, _)
SkipSpace(b, p) == IF IsSpace(b[p]) THEN SkipSpace(b, p + 1) ELSE p

\* The last index at or before p that holds no white space.
RECURSIVE BackSpace(_, _)
BackSpace(b, p) == IF IsSpace(b[p]) THEN BackSpace(b, p - 1) ELSE p

\* strtrim(str): removes the white space at both ends of the C string at p, in
\* place: the text is moved down to p and a NUL is written after its last
\* non-blank character.  Bytes behind the new NUL keep what they held.
StrTrim(b, p) ==
  LET e == StrEnd(b, p)
      first == SkipSpace(b, p)
      \* memmove(str, pch, strlen(pch) + 1)
      moved == SubSeq(b, 1, p - 1) \o SubSeq(b, first, e) \o SubSeq(b, p + (e - first) + 1, Len(b))
      e2 == p + (e - first)
  IN  IF e = p THEN b
      ELSE IF e2 = p THEN moved
      ELSE [moved EXCEPT ![BackSpace(moved, e2 - 1) + 1] = NUL]

\* line_starts_with(line, starts_with): strncmp over strlen(starts_with)
\* characters; 0 when the line begins with the keyword.
LineStartsWith(b, p, kw) ==
  IF \A i \in 1..Len(kw) : p + i - 1 <= Len(b) /\ b[p + i - 1] = kw[i] THEN 0 ELSE 1

\* The tokens strtok(., " \n") yields on the C string at p.
TokDelims == {" ", "\n"}
RECURSIVE SkipDelims(_, _)
SkipDelims(b, p) == IF b[p] \in TokDelims THEN SkipDelims(b, p + 1) ELSE p
RECURSIVE TokenEnd(_, _)
TokenEnd(b, p) == IF b[p] \in TokDelims \/ b[p] = NUL THEN p ELSE TokenEnd(b, p + 1)
RECURSIVE StrTok(_, _)
StrTok(b, p) ==
  LET s == SkipDelims(b, p)
      t == TokenEnd(b, s)
  IN  IF b[s] = NUL THEN <<>>
      ELSE <<SubSeq(b, s, t - 1)>> \o (IF b[t] = NUL THEN <<>> ELSE StrTok(b, t + 1))

\* strcspn(token, "=<>\"'")
StripChars == {"=", "<", ">", "\"", "'"}
StrCSpn(t) ==
  LET hits == {i \in 1..Len(t) : t[i] \in StripChars}
  IN  IF hits = {} THEN Len(t) ELSE (CHOOSE i \in hits : \A j \in hits : i <= j) - 1

\* Mutant of NormalizeToken: the quotes are missing from the strcspn set.
NormalizeTokenKeepQuote(tok, stripdeps) ==
  LET t == IF tok[1] \in Quotes THEN Tail(tok) ELSE tok
      hits == {i \in 1..Len(t) : t[i] \in {"=", "<", ">"}}
  IN  IF stripdeps
      THEN SubSeq(t, 1, IF hits = {} THEN Len(t) ELSE (CHOOSE i \in hits : \A j \in hits : i <= j) - 1)
      ELSE IF Len(t) = 0 THEN t
      ELSE IF t[Len(t)] \in Quotes THEN SubSeq(t, 1, Len(t) - 1)
      ELSE t

\* lines 38-47: what one token becomes.
NormalizeToken(tok, stripdeps) ==
  LET t == IF tok[1] \in Quotes THEN Tail(tok) ELSE tok       \* token++
  IN  IF stripdeps THEN SubSeq(t, 1, StrCSpn(t))
      \* ptr = token + strlen(token) - 1: for an empty token ptr is the quote
      \* that was stepped over, and clearing it leaves the token empty.
      ELSE IF Len(t) = 0 THEN t
      ELSE IF t[Len(t)] \in Quotes THEN SubSeq(t, 1, Len(t) - 1)
      ELSE t

\* Mutant of AddDepend: the alpm_list_find_str test is left out.
AddDependAlways(dl, name) == Append(dl, name)

\* lines 52-53: if (alpm_list_find_str(deplist, token) == NULL)
\*                deplist = alpm_list_add(deplist, strdup(token));
AddDepend(dl, name) == IF name \in Range(dl) THEN dl ELSE Append(dl, name)

\* parse_bash_array(deplist, deparray, stripdeps), deparray the C string at p.
\* strtok and line 42/46 write NULs into the array text only, which lies
\* before arrayend and is not read again by the callers.
RECURSIVE AddTokens(_, _, _)
AddTokens(dl, toks, stripdeps) ==
  IF toks = <<>> THEN dl
  ELSE AddTokens(AddDepend(dl, NormalizeToken(Head(toks), stripdeps)), Tail(toks), stripdeps)

ParseBashArray(dl, b, p, stripdeps) == AddTokens(dl, StrTok(b, p), stripdeps)

\* One iteration of the while loop of pkgbuild_get_deps (lines 69-84) from
\* st = [buf, bptr, deplist].  kind says how the iteration ended: "return"
\* (the loop condition failed), "skip" (lines 72-77), "array" (lines 79-83) or
\* "crash" (line 80 wrote through the NULL strchr returned).
GetDepsIter(st) ==
  LET nl == IF st.bptr = NULL THEN NULL ELSE StrChr(st.buf, st.bptr, "\n")
      lineptr == nl + 1
      b1 == StrTrim(st.buf, lineptr)
      arrayend == StrChr(b1, lineptr, ")")
      b2 == [b1 EXCEPT ![arrayend] = NUL]
      open == StrChr(b2, lineptr, "(")
  IN  IF nl = NULL THEN [st EXCEPT !.kind = "return"]
      ELSE IF /\ LineStartsWith(b1, lineptr, PKGBUILD_DEPENDS) # 0
              /\ LineStartsWith(b1, lineptr, PKGBUILD_MAKEDEPENDS) # 0
           THEN [st EXCEPT !.kind = "skip", !.buf = b1, !.bptr = StrChr(b1, lineptr, "\n")]
      ELSE IF arrayend = NULL \/ open = NULL
           THEN [st EXCEPT !.kind = "crash", !.buf = b1]
      ELSE [st EXCEPT !.kind = "array", !.buf = b2, !.bptr = arrayend + 1,
                      !.deplist = ParseBashArray(st.deplist, b2, open + 1, TRUE)]

\* One iteration of the while loop of populate_pkg_deps (lines 95-115) from
\* st = [buf, bptr, pkg].
PopulateIter(st) ==
  LET nl == IF st.bptr = NULL THEN NULL ELSE StrChr(st.buf, st.bptr, "\n")
      lineptr == nl + 1
      b1 == StrTrim(st.buf, lineptr)
      field == IF LineStartsWith(b1, lineptr, PKGBUILD_DEPENDS) = 0 THEN "depends"
               ELSE IF LineStartsWith(b1, lineptr, PKGBUILD_MAKEDEPENDS) = 0 THEN "makedepends"
               ELSE IF LineStartsWith(b1, lineptr, PKGBUILD_OPTDEPENDS) = 0 THEN "optdepends"
               ELSE "none"
      arrayend == StrChr(b1, lineptr, ")")
      b2 == [b1 EXCEPT ![arrayend] = NUL]
      open == StrChr(b2, lineptr, "(")
  IN  IF nl = NULL THEN [st EXCEPT !.kind = "return"]
      ELSE IF field = "none"
           THEN [st EXCEPT !.kind = "skip", !.buf = b1, !.bptr = StrChr(b1, lineptr, "\n")]
      ELSE IF arrayend = NULL \/ open = NULL
           THEN [st EXCEPT !.kind = "crash", !.buf = b1]
      ELSE [st EXCEPT !.kind = "array", !.buf = b2, !.bptr = arrayend + 1,
                      !.pkg[field] = ParseBashArray(st.pkg[field], b2, open + 1, FALSE)]

\* The recipe text made of the lines ls: the lines joined by "\n", then NUL.
RECURSIVE JoinLines(_)
JoinLines(ls) ==
  IF Len(ls) = 0 THEN <<>>
  ELSE IF Len(ls) = 1 THEN ls[1]
  ELSE ls[1] \o <<"\n">> \o JoinLines(Tail(ls))

RecipeText(ls) == JoinLines(ls) \o <<NUL>>

ExtractLines == {DepLine, MakeLine, OptLine, OpenLine, IndentLine, PlainLine, BuildLine, EmptyLine}

EmptyPkg == [depends |-> <<>>, makedepends |-> <<>>, optdepends |-> <<>>]

ExtractInit ==
  \E ls \in SeqsUpTo(ExtractLines, MaxLines), f \in {"get_deps", "populate"} :
    /\ Len(ls) >= 1
    /\ lines0 = ls
    /\ buf = RecipeText(ls)
    /\ bptr = 1                    \* bptr = pkgbuild;
    /\ deplist = <<>>              \* deplist = NULL;
    /\ pkg = EmptyPkg
    /\ epc = "loop"
    /\ fun = f

ExtractState == [buf |-> buf, bptr |-> bptr, deplist |-> deplist, pkg |-> pkg, kind |-> "none"]

\* One iteration of the running extractor.
ExtractIter == IF fun = "get_deps" THEN GetDepsIter(ExtractState) ELSE PopulateIter(ExtractState)

ExtractApply(kind, pcNext) ==
  /\ LET r == ExtractIter
     IN  /\ r.kind = kind
         /\ buf' = r.buf
         /\ bptr' = r.bptr
         /\ deplist' = r.deplist
         /\ pkg' = r.pkg
  /\ epc' = pcNext
  /\ UNCHANGED <<fun, lines0>>
  /\ UNCHANGED <<mvars, rvars>>

\* lines 72-77 / 105-108: the line starts with no keyword.
ExtractSkipLine ==
  /\ epc = "loop"
  /\ ExtractIter.kind = "skip"
  /\ ExtractApply("skip", "loop")

\* lines 79-83 / 110-114: an array is parsed.
ExtractArray ==
  /\ epc = "loop"
  /\ ExtractIter.kind = "array"
  /\ ExtractApply("array", "loop")

\* lines 80 / 111: *arrayend = '\0' with arrayend == NULL.  The write is to the
\* page at address 0: the process traps.
ExtractNullDeref ==
  /\ epc = "loop"
  /\ ExtractIter.kind = "crash"
  /\ ExtractApply("crash", "crashed")

\* lines 69, 86 / 95, 117: no further newline, the function returns.
ExtractReturn ==
  /\ epc = "loop"
  /\ ExtractIter.kind = "return"
  /\ ExtractApply("return", "done")

ExtractNext ==
  \/ ExtractSkipLine
  \/ ExtractArray
  \/ ExtractNullDeref
  \/ ExtractReturn

ExtractIdle ==
  /\ buf = <<NUL>>
  /\ bptr = NULL
  /\ deplist = <<>>
  /\ pkg = EmptyPkg
  /\ epc = "idle"
  /\ fun = "none"
  /\ lines0 = <<>>

(***************************************************************************)
(*                    PART 3: get_pkg_dependencies                         *)
(***************************************************************************)
\* pkgbuild_get_deps(pkgbuild) run to its end: the loop of lines 69-84 until
\* it returns or traps.
RECURSIVE GetDepsRun(_, _)
GetDepsRun(st, fuel) ==
  LET r == GetDepsIter(st)
  IN  IF r.kind \in {"return", "crash"} \/ fuel = 0 THEN r ELSE GetDepsRun(r, fuel - 1)

PkgbuildGetDeps(text) ==
  GetDepsRun([buf |-> text, bptr |-> 1, deplist |-> <<>>, pkg |-> EmptyPkg, kind |-> "none"],
             Len(text))

ResolveLines == {DepXYZ, MakeZX, DepZZ, PlainLine, OpenLine}
EnvNames == {NameX, NameY, NameZ}

ResolveInit ==
  \E ls \in SeqsUpTo(ResolveLines, MaxRecipeLines), rd \in BOOLEAN,
     ins \in SUBSET EnvNames, rep \in SUBSET EnvNames, aur \in SUBSET EnvNames :
    /\ (~rd => ls = <<>>)
    /\ readable = rd
    /\ rlines = ls
    /\ installed = ins
    /\ repos = rep
    /\ aurdb = aur
    /\ rpc = "start"
    /\ ret = 0                     \* int ret = 0;
    /\ rdeps = <<>>
    /\ ri = 1
    /\ log = <<>>

\* The record of one call to a collaborator.
Call(what, name, found) == [call |-> what, name |-> name, found |-> found]

\* alpm_db_get_pkg(db_local, depend)
IsInstalled(name) == name \in installed
\* is_in_pacman(target): alpm_sync_search over the sync databases
IsInPacman(name) == name \in repos
\* aur_rpc_query(AUR_QUERY_TYPE_INFO, depend) returns a result
AurRpcQuery(name) == name \in aurdb

\* lines 133-141: the buffer is NULL; return 1.
ResolveOpenFail ==
  /\ rpc = "start"
  /\ ~readable
  /\ ret' = 1
  /\ rpc' = "done"
  /\ UNCHANGED <<rdeps, ri, log, installed, repos, aurdb, readable, rlines>>
  /\ UNCHANGED <<mvars, evars>>

\* lines 143-154: deplist = pkgbuild_get_deps(buffer); i = deplist.
ResolveExtract ==
  /\ rpc = "start"
  /\ readable
  /\ LET r == PkgbuildGetDeps(RecipeText(rlines))
     IN  r.kind = "return" /\ rdeps' = r.deplist
  /\ ri' = 1
  /\ rpc' = "loop"
  /\ UNCHANGED <<ret, log, installed, repos, aurdb, readable, rlines>>
  /\ UNCHANGED <<mvars, evars>>

\* line 143, pkgbuild_get_deps traps at its line 80.
ResolveExtractCrash ==
  /\ rpc = "start"
  /\ readable
  /\ PkgbuildGetDeps(RecipeText(rlines)).kind = "crash"
  /\ rpc' = "crashed"
  /\ UNCHANGED <<ret, rdeps, ri, log, installed, repos, aurdb, readable, rlines>>
  /\ UNCHANGED <<mvars, evars>>

\* lines 160-165: installed; continue.
ClassifyInstalled ==
  /\ rpc = "loop"
  /\ ri <= Len(rdeps)
  /\ IsInstalled(rdeps[ri])
  /\ log' = Append(log, Call("local", rdeps[ri], TRUE))
  /\ ri' = ri + 1
  /\ UNCHANGED <<rpc, ret, rdeps, installed, repos, aurdb, readable, rlines>>
  /\ UNCHANGED <<mvars, evars>>

\* Mutant of ClassifyInRepo: the sync databases are asked without the local
\* database having been asked first.
ClassifyInRepoFirst ==
  /\ rpc = "loop"
  /\ ri <= Len(rdeps)
  /\ rdeps[ri] \in repos
  /\ log' = Append(log, [call |-> "repo", name |-> rdeps[ri], found |-> TRUE])
  /\ ri' = ri + 1
  /\ UNCHANGED <<rpc, ret, rdeps, installed, repos, aurdb, readable, rlines>>
  /\ UNCHANGED <<mvars, evars>>

\* lines 160, 167-168: not installed, available in pacman; continue.
ClassifyInRepo ==
  /\ rpc = "loop"
  /\ ri <= Len(rdeps)
  /\ ~IsInstalled(rdeps[ri])
  /\ IsInPacman(rdeps[ri])
  /\ log' = log \o <<Call("local", rdeps[ri], FALSE), Call("repo", rdeps[ri], TRUE)>>
  /\ ri' = ri + 1
  /\ UNCHANGED <<rpc, ret, rdeps, installed, repos, aurdb, readable, rlines>>
  /\ UNCHANGED <<mvars, evars>>

\* lines 160, 167, 171-182: the AUR has it; ret++; aur_get_tarball(...), whose
\* return value (fetched or not) is not looked at.
ClassifyAur ==
  /\ rpc = "loop"
  /\ ri <= Len(rdeps)
  /\ ~IsInstalled(rdeps[ri])
  /\ ~IsInPacman(rdeps[ri])
  /\ AurRpcQuery(rdeps[ri])
  /\ \E fetched \in BOOLEAN :
       log' = log \o <<Call("local", rdeps[ri], FALSE), Call("repo", rdeps[ri], FALSE),
                       Call("aur", rdeps[ri], TRUE), Call("fetch", rdeps[ri], fetched)>>
  /\ ret' = ret + 1
  /\ ri' = ri + 1
  /\ UNCHANGED <<rpc, rdeps, installed, repos, aurdb, readable, rlines>>
  /\ UNCHANGED <<mvars, evars>>

\* lines 160, 167, 171-172, 183: found nowhere, silently ignored.
ClassifyUnresolved ==
  /\ rpc = "loop"
  /\ ri <= Len(rdeps)
  /\ ~IsInstalled(rdeps[ri])
  /\ ~IsInPacman(rdeps[ri])
  /\ ~AurRpcQuery(rdeps[ri])
  /\ log' = log \o <<Call("local", rdeps[ri], FALSE), Call("repo", rdeps[ri], FALSE),
                     Call("aur", rdeps[ri], FALSE)>>
  /\ ri' = ri + 1
  /\ UNCHANGED <<rpc, ret, rdeps, installed, repos, aurdb, readable, rlines>>
  /\ UNCHANGED <<mvars, evars>>

\* lines 155, 186-191: the list is exhausted; return ret.
ResolveReturn ==
  /\ rpc = "loop"
  /\ ri > Len(rdeps)
  /\ rpc' = "done"
  /\ UNCHANGED <<ret, rdeps, ri, log, installed, repos, aurdb, readable, rlines>>
  /\ UNCHANGED <<mvars, evars>>

ResolveNext ==
  \/ ResolveOpenFail
  \/ ResolveExtract
  \/ ResolveExtractCrash
  \/ ClassifyInstalled
  \/ ClassifyInRepo
  \/ ClassifyAur
  \/ ClassifyUnresolved
  \/ ResolveReturn

ResolveIdle ==
  /\ rpc = "idle"
  /\ ret = 0
  /\ rdeps = <<>>
  /\ ri = 1
  /\ log = <<>>
  /\ installed = {} /\ repos = {} /\ aurdb = {}
  /\ readable = FALSE
  /\ rlines = <<>>

(***************************************************************************)
(*                          The specifications                             *)
(***************************************************************************)
MergeStart == MergeInit /\ ExtractIdle /\ ResolveIdle
MergeSpec == MergeStart /\ [][MergeNext]_vars

ExtractStart == ExtractInit /\ MergeIdle /\ ResolveIdle
ExtractSpec == ExtractStart /\ [][ExtractNext]_vars

ResolveStart == ResolveInit /\ MergeIdle /\ ExtractIdle
ResolveSpec == ResolveStart /\ [][ResolveNext]_vars

(***************************************************************************)
(*                              The claims                                 *)
(***************************************************************************)
\* The nodes reached from n by following next, in order.
RECURSIVE Chain(_, _, _)
Chain(f, n, fuel) ==
  IF n = NULL \/ fuel = 0 THEN <<>> ELSE <<n>> \o Chain(f, f[n], fuel - 1)

ResultNodes == Chain(nxt, result, 2 * MaxLen + 1)
ResultKeys == [i \in 1..Len(ResultNodes) |-> dat[ResultNodes[i]]]

\* Sorted under Cmp with no two equal elements.
SortedNoDup(s) == \A i \in 1..(Len(s) - 1) : Cmp(s[i], s[i + 1]) < 0

\* C1: for inputs that are each sorted and free of duplicates, the call
\* returns, and the list it returns is sorted, has no two adjacent equal
\* elements and holds each value of left or right exactly once.
C1_MergeSortedUnique ==
  (SortedNoDup(leftIn) /\ SortedNoDup(rightIn)) =>
    /\ mpc # "crashed"
    /\ mpc = "done" =>
         /\ SortedNoDup(ResultKeys)
         /\ Range(ResultKeys) = Range(leftIn) \cup Range(rightIn)

\* What does hold of the merge: whenever the call returns on such inputs, the
\* returned list is sorted and holds each value once.
MergeSortedUniqueOnReturn ==
  (SortedNoDup(leftIn) /\ SortedNoDup(rightIn) /\ mpc = "done") =>
    /\ SortedNoDup(ResultKeys)
    /\ Range(ResultKeys) = Range(leftIn) \cup Range(rightIn)

Allocated == {n \in Nodes : OnList(leftIn, 0, n) \/ OnList(rightIn, RightBase, n)}
Retained == Allocated \ freed

\* C10: whenever the call returns on well-formed inputs, following next from
\* the returned head reaches every retained node once and ends at NULL, every
\* non-head node's prev is its predecessor, head.prev is the last node, no freed
\* node is reachable, and with an empty input the other list is returned as
\* it was.
C10_ResultWellFormed ==
  mpc = "done" =>
    LET c == ResultNodes
    IN  /\ Range(c) = Retained
        /\ Len(c) = Cardinality(Retained)
        /\ c # <<>> => nxt[c[Len(c)]] = NULL /\ prv[c[1]] = c[Len(c)]
        /\ \A i \in 2..Len(c) : prv[c[i]] = c[i - 1] /\ nxt[prv[c[i]]] = c[i]
        /\ \A n \in Range(c) : nxt[n] \notin freed /\ prv[n] \notin freed
        /\ (leftIn = <<>> \/ rightIn = <<>>) =>
             /\ nxt = InitNext(leftIn, rightIn)
             /\ prv = InitPrev(leftIn, rightIn)
             /\ freed = {}
             /\ result = IF leftIn = <<>> THEN ListHead(rightIn, RightBase) ELSE ListHead(leftIn, 0)

\* A merge that removed a duplicate, linked nodes of both inputs and attached
\* a remainder of two nodes has returned.
C10_Witness ==
  /\ mpc = "done"
  /\ freed # {}
  /\ leftIn = <<1, 2, 3>> /\ rightIn = <<1, 3, 3>>
  /\ Len(ResultNodes) = 4
  /\ Cardinality(freed) = 2

\* The calls of the log, as (call, name) and per name.
CallsAbout(n) == SelectSeq(log, LAMBDA c : c.name = n)
LocalLookups == SelectSeq(log, LAMBDA c : c.call = "local")

\* C2: each name is looked up in the local database first, in the sync
\* databases only after a local miss, in the AUR only after both missed; a
\* tarball is fetched only right after an AUR hit; a hit ends the handling of
\* the name, and so does an AUR miss, after which the next name is looked up;
\* when the pass returns every name of the list was looked up, in order.
C2_LookupOrder ==
  /\ \A k \in DOMAIN log :
       LET c == log[k] IN
       /\ c.call = "local" => c.found = (c.name \in installed)
       /\ c.call = "repo" =>
            /\ c.found = (c.name \in repos)
            /\ c.name \notin installed
            /\ k > 1 /\ log[k - 1] = Call("local", c.name, FALSE)
       /\ c.call = "aur" =>
            /\ c.name \notin installed /\ c.name \notin repos
            /\ k > 1 /\ log[k - 1] = Call("repo", c.name, FALSE)
       /\ c.call = "fetch" => k > 1 /\ log[k - 1] = Call("aur", c.name, TRUE)
       /\ (k < Len(log) /\ c.call \in {"local", "repo"} /\ c.found) => log[k + 1].call = "local"
       /\ (k < Len(log) /\ c.call = "aur" /\ ~c.found) => log[k + 1].call = "local"
       /\ (k < Len(log) /\ c.call = "fetch") => log[k + 1].call = "local"
  /\ (rpc = "done" /\ readable) =>
       /\ Len(LocalLookups) = Len(rdeps)
       /\ \A i \in DOMAIN rdeps : LocalLookups[i].name = rdeps[i]
       /\ log # <<>> => \/ log[Len(log)].call = "fetch"
                        \/ log[Len(log)].call = "aur" /\ ~log[Len(log)].found
                        \/ log[Len(log)].call \in {"local", "repo"} /\ log[Len(log)].found

\* A pass has returned in which x was both installed and in a repository, y
\* was found nowhere and z, listed after y, was still looked up.
C2_Witness ==
  /\ rpc = "done" /\ readable
  /\ rdeps = <<NameX, NameY, NameZ>>
  /\ NameX \in installed /\ NameX \in repos
  /\ NameY \notin installed \cup repos \cup aurdb
  /\ CallsAbout(NameX) = <<Call("local", NameX, TRUE)>>
  /\ CallsAbout(NameY) = <<Call("local", NameY, FALSE), Call("repo", NameY, FALSE), Call("aur", NameY, FALSE)>>
  /\ CallsAbout(NameZ) # <<>>

FetchesOf(n) == SelectSeq(log, LAMBDA c : c.call = "fetch" /\ c.name = n)
AurOnly == {n \in Range(rdeps) : n \notin installed /\ n \notin repos /\ n \in aurdb}

FetchedOk == SelectSeq(log, LAMBDA c : c.call = "fetch" /\ c.found)

\* C4: a failed tarball retrieval does not abort the pass and is not counted:
\* the pass returns the number of dependencies whose retrieval succeeded.
C4_CountsSuccessfulFetches ==
  (rpc = "done" /\ readable) => ret = Len(FetchedOk)

\* C5: with an unreadable recipe the function makes no lookup, query or fetch
\* and returns a value that is no fetched count of a successful pass (a
\* fetched count is a natural number).
C5_RecipeUnavailable ==
  (rpc = "done" /\ ~readable) => (log = <<>> /\ ret \notin Nat)

NoDup(s) == \A i, j \in DOMAIN s : s[i] = s[j] => i = j

\* C6: the list pkgbuild_get_deps builds never holds two equal strings nor a
\* string with one of = < > " ' in it; names come in the order of their first
\* occurrence and one repeated in an array or across arrays is kept once:
\* depends=('a' 'b>=1.0' 'a') gives [a, b], and followed by
\* makedepends=("c<2" a) it gives [a, b, c].
C6_StrippedUnique ==
  fun = "get_deps" =>
    /\ NoDup(deplist)
    /\ \A i \in DOMAIN deplist : \A k \in DOMAIN deplist[i] : deplist[i][k] \notin StripChars
    /\ (epc = "done" /\ lines0 = <<EmptyLine, DepLine>>) => deplist = <<NameA, NameB>>
    /\ (epc = "done" /\ lines0 = <<PlainLine, DepLine, MakeLine>>) => deplist = <<NameA, NameB, NameC>>

\* pkgbuild_get_deps has returned [a, b, c] for the two declarations.
C6_Witness ==
  /\ fun = "get_deps" /\ epc = "done"
  /\ lines0 = <<PlainLine, DepLine, MakeLine>>
  /\ deplist = <<NameA, NameB, NameC>>

\* C7: populate_pkg_deps stores the element 'a: description text' of an
\* optdepends array as the one entry "a: description text".
C7_RawKeepsQuotedElement ==
  (fun = "populate" /\ epc = "done" /\ Len(lines0) >= 2 /\ lines0[2] = OptLine) =>
    pkg.optdepends = <<DescEntry>>

\* C8: when the first declaration examined opens an array that its line never
\* closes, extraction neither traps on the missing ')' nor returns normally,
\* and nothing is added to any list.
C8_UnterminatedIsError ==
  (Len(lines0) >= 2 /\ lines0[2] = OpenLine) =>
    /\ epc \notin {"crashed", "done"}
    /\ deplist = <<>>
    /\ pkg = EmptyPkg

\* C9: a depends array declared on the first line of the text is extracted
\* by pkgbuild_get_deps as it is on a later line.
C9_FirstLineExamined ==
  (fun = "get_deps" /\ epc = "done" /\ lines0[1] = DepLine) =>
    (NameA \in Range(deplist) /\ NameB \in Range(deplist))

====
